---- MODULE Spec2Model ----
(***************************************************************************)
(* A model of roku/core.py: the Roku / RokuTV device objects, the          *)
(* Application objects they hand out, and the HTTP requests every public   *)
(* operation issues through Roku._call.  The device at the other end of    *)
(* the wire is the environment: each request is answered by a response     *)
(* (status code and body) chosen nondeterministically.                     *)
(*                                                                         *)
(* The library is synchronous and single threaded: one public operation    *)
(* runs at a time.  `call' names the operation in progress or last run,    *)
(* `requests' / `responses' are the HTTP exchanges it made, in order, and  *)
(* `raised' / `returned' are how it ended.                                 *)
(***************************************************************************)
EXTENDS Integers, Sequences, FiniteSets, TLC

(***************************************************************************)
(* Bounds of the model.                                                    *)
(***************************************************************************)
NumDevices == 2        \* device objects the caller constructed
MaxLiteralLen == 3     \* longest string handed to literal()
MaxSensorArgs == 4     \* most positional arguments handed to a sensor command
MaxDescriptors == 2    \* most descriptors discovery.discover() yields

Devices == 1..NumDevices

(***************************************************************************)
(* Module-level tables (core.py lines 14-46).                              *)
(***************************************************************************)
ECP_KEYS ==
    [home |-> "Home", reverse |-> "Rev", forward |-> "Fwd", play |-> "Play",
     select |-> "Select", left |-> "Left", right |-> "Right", down |-> "Down",
     up |-> "Up", back |-> "Back", replay |-> "InstantReplay", info |-> "Info",
     backspace |-> "Backspace", search |-> "Search", enter |-> "Enter",
     literal |-> "Lit"]

ROKUTV_KEYS ==
    [channel_down |-> "ChannelDown", channel_up |-> "ChannelUp",
     mute |-> "VolumeMute", power |-> "Power", power_on |-> "PowerOn",
     power_off |-> "PowerOff", volume_down |-> "VolumeDown",
     volume_up |-> "VolumeUp"]

SENSORS == <<"acceleration", "magnetic", "orientation", "rotation">>

TOUCH_OPS == <<"up", "down", "press", "move", "cancel">>

TV_INPUTS == <<"AV1", "HDMI1", "HDMI2", "HDMI3", "HDMI4", "Tuner">>

\* Python's `x in seq' for a tuple.
In(x, seq) == \E i \in DOMAIN seq : seq[i] = x

(***************************************************************************)
(* Python values.                                                          *)
(***************************************************************************)
None == [kind |-> "None"]
Value(v) == [kind |-> "value", val |-> v]
Unset == [kind |-> "unset"]          \* the operation has not returned

NoExc == [type |-> "none"]
AttributeError(msg) == [type |-> "AttributeError", arg |-> msg]
RokuException(arg) == [type |-> "RokuException", arg |-> arg]

\* A device reference held by an Application: a device identity, or no device.
NoRoku == 0

\* The keyword arguments handed to the HTTP session: none, or params=<dict>.
NoKwargs == << >>
Params(p) == [params |-> p]

(***************************************************************************)
(* Objects.                                                                *)
(***************************************************************************)
DefaultPort == 8060

Hosts == <<"10.0.0.2", "10.0.0.3">>

\* The address the caller gives device object d.
HostOf(d) == Hosts[((d - 1) % Len(Hosts)) + 1]

\* Roku.__init__: host, port, no session yet, a private copy of ECP_KEYS.
Roku__init__(host, port) ==
    [cls |-> "Roku", host |-> host, port |-> port, _conn |-> "None",
     supported_keys |-> ECP_KEYS]

\* RokuTV.__init__: the base constructor, then supported_keys.update(ROKUTV_KEYS).
RokuTV__init__(host, port) ==
    [Roku__init__(host, port) EXCEPT
        !.cls = "RokuTV", !.supported_keys = ROKUTV_KEYS @@ @]

\* A new object: the constructor's fields under a fresh identity (Python's id()).
New(id, fields) == [id |-> id] @@ fields

\* Roku.is_tv: isinstance(self, RokuTV).
is_tv(self) == self.cls = "RokuTV"

\* Roku.commands: sorted(self.supported_keys.keys()); kept as the set of its
\* elements (the order of the list is the alphabet's, not the program's).
commands(self) == DOMAIN self.supported_keys

\* str(x) as Application.__init__ applies it to an attribute that may be None.
str(x) == IF x.kind = "None" THEN "None" ELSE x.val

\* Application.__init__ (id is an attribute value, or None when absent).
Application(id, version, name, roku) ==
    [id |-> str(id), version |-> version, name |-> name, roku |-> roku]

(***************************************************************************)
(* The device's answers.  A response is a status code and a body; a body   *)
(* that the library parses is given already parsed.                        *)
(***************************************************************************)
FailureResponses ==
    [status_code : {202, 404}, content : {"", "Not Found"}]

\* Element.get(key): the attribute's value, or None.
get(node, key) == IF key \in DOMAIN node.attrib THEN Value(node.attrib[key]) ELSE None

\* Element.find(tag): the child element, or None.
find(root, tag) == IF tag \in DOMAIN root THEN Value(root[tag]) ELSE None

AppNodes ==
    { [attrib |-> [id |-> "12", version |-> "4.1"], text |-> "Netflix"],
      [attrib |-> [id |-> "55545", version |-> "2.0"], text |-> "Aquatic Life"],
      [attrib |-> [version |-> "1.0"], text |-> "Home"] }

\* <active-app> documents: any combination of an <app> and a <screensaver> child.
ActiveAppDocs ==
    UNION { [tags -> AppNodes] : tags \in SUBSET {"app", "screensaver"} }

IsTvTexts == {"true", "false", "True"}

DeviceInfoFields ==
    ("model-name" :> "Roku 3") @@ ("model-number" :> "4200X") @@
    ("software-version" :> "7.00") @@ ("software-build" :> "09044") @@
    ("serial-number" :> "1GU48T017973") @@ ("power-mode" :> "PowerOn")

\* <device-info> documents: children mapped to their text; is-tv may be absent.
DeviceInfoDocs ==
    {DeviceInfoFields} \cup { ("is-tv" :> t) @@ DeviceInfoFields : t \in IsTvTexts }

MaxApps == 2

AppEntries ==
    { [id |-> "12", version |-> "4.1", name |-> "Netflix"],
      [id |-> "2285", version |-> "2.7", name |-> "Hulu"] }

\* <apps> documents: the <app> entries in response order.
AppsDocs == UNION { [1..n -> AppEntries] : n \in 0..MaxApps }

\* util.deserialize_apps: one Application per entry, in order, owned by no device.
deserialize_apps(doc) ==
    [i \in DOMAIN doc |->
        Application(Value(doc[i].id), Value(doc[i].version), doc[i].name, NoRoku)]

OkContent(endpoint) ==
    CASE endpoint = "device-info" -> DeviceInfoDocs
      [] endpoint = "active-app" -> ActiveAppDocs
      [] endpoint = "apps" -> AppsDocs
      [] endpoint = "icon" -> {"<png 1>", "<png 2>"}
      [] endpoint = "launch" -> {"", "ok"}
      [] OTHER -> {""}

Responses(endpoint) ==
    FailureResponses \cup [status_code : {200}, content : OkContent(endpoint)]

(***************************************************************************)
(* Transport (Roku._connect, _get, _post, _call).                          *)
(***************************************************************************)
\* Roku._connect: the session is created on first use and then kept.
_connect(self) == IF self._conn = "None" THEN [self EXCEPT !._conn = "Session"] ELSE self

\* 'http://%s:%s%s' % (self.host, self.port, path)
url(self, path) == "http://" \o self.host \o ":" \o ToString(self.port) \o path

\* A faulty variant of _call_outcome: only 4xx and 5xx statuses raise.
_call_outcome_errors_only(resp) ==
    IF resp.status_code >= 400
    THEN [raised |-> RokuException(resp.content), returned |-> Unset]
    ELSE [raised |-> NoExc, returned |-> Value(resp.content)]

\* How one HTTP exchange ends: a non-200 status raises RokuException(body),
\* status 200 returns the body.
_call_outcome(resp) ==
    IF resp.status_code # 200
    THEN [raised |-> RokuException(resp.content), returned |-> Unset]
    ELSE [raised |-> NoExc, returned |-> Value(resp.content)]

\* Roku._call: the request it sends (none for a method other than GET/POST)
\* and how it ends when the device answers resp.
_call(self, method, path, kwargs, resp) ==
    IF method \notin {"GET", "POST"}
    THEN [self |-> _connect(self), sent |-> << >>, got |-> << >>,
          raised |-> [type |-> "ValueError",
                      arg |-> "only GET and POST HTTP methods are supported"],
          returned |-> Unset]
    ELSE [self |-> _connect(self),
          sent |-> << [method |-> method, url |-> url(self, path), kwargs |-> kwargs] >>,
          got |-> << resp >>] @@ _call_outcome(resp)

_get(self, path, kwargs, resp) == _call(self, "GET", path, kwargs, resp)

_post(self, path, kwargs, resp) == _call(self, "POST", path, kwargs, resp)


\* An operation that raises before any request is made.
Raise(self, exc) ==
    [self |-> self, sent |-> << >>, got |-> << >>, raised |-> exc, returned |-> Unset]

\* A method that ends without a return statement returns None.
ReturnNone(out) == IF out.raised = NoExc THEN [out EXCEPT !.returned = None] ELSE out

(***************************************************************************)
(* Roku.input, Roku.touch and the commands resolved by Roku.__getattr__.   *)
(***************************************************************************)
input(self, params, resp) == _post(self, "/input", Params(params), resp)

\* A faulty variant of touch: the operation is not validated.
touch_unvalidated(self, x, y, op, resp) ==
    ReturnNone(input(self,
        ("touch.0.x" :> x) @@ ("touch.0.y" :> y) @@ ("touch.0.op" :> op), resp))

\* Roku.touch
touch(self, x, y, op, resp) ==
    IF ~In(op, TOUCH_OPS)
    THEN Raise(self, RokuException(op \o " is not a valid touch operation"))
    ELSE ReturnNone(input(self,
            ("touch.0.x" :> x) @@ ("touch.0.y" :> y) @@ ("touch.0.op" :> op), resp))

Min(a, b) == IF a < b THEN a ELSE b

\* zip(keys, args): pairs up to the shorter of the two.
zip(keys, args) == [i \in 1..Min(Len(keys), Len(args)) |-> <<keys[i], args[i]>>]

\* dict(pairs): a later pair with the same key wins.
dict(pairs) ==
    [k \in {pairs[i][1] : i \in DOMAIN pairs} |->
        LET last == CHOOSE i \in DOMAIN pairs :
                        /\ pairs[i][1] = k
                        /\ \A j \in DOMAIN pairs : pairs[j][1] = k => j <= i
        IN pairs[last][2]]

\* ['%s.%s' % (name, axis) for axis in ('x', 'y', 'z')]
sensor_keys(name) == [i \in 1..3 |-> name \o "." \o <<"x", "y", "z">>[i]]

\* A faulty variant of unsupported: the name is looked up in the module's ECP_KEYS
\* instead of the instance's table.
unsupported_static_table(self, name) ==
    name \notin DOMAIN ECP_KEYS /\ ~In(name, SENSORS)

\* The guard of Roku.__getattr__: the name is neither a key of this
\* instance's table nor a sensor.
unsupported(self, name) ==
    name \notin DOMAIN self.supported_keys /\ ~In(name, SENSORS)

\* A faulty variant of keypress_path: the command name is sent instead of its token.
keypress_path_by_name(self, name) == "/keypress/" \o name

\* '/keypress/%s' % self.supported_keys[name]
keypress_path(self, name) == "/keypress/" \o self.supported_keys[name]

\* getattr(self, name)(*args) for a name other than "literal".
command(self, name, args, resp) ==
    IF unsupported(self, name)
    THEN Raise(self, AttributeError(name \o " is not a valid key or sensor"))
    ELSE IF In(name, SENSORS)
    THEN ReturnNone(input(self, dict(zip(sensor_keys(name), args)), resp))
    ELSE ReturnNone(_post(self, keypress_path(self, name), NoKwargs, resp))

\* str.upper() on the characters the model types.
upper(char) ==
    CASE char = "i" -> "I"
      [] OTHER -> char

\* A faulty variant of literal_path: the character is sent as typed.
literal_path_as_typed(self, char) ==
    "/keypress/" \o self.supported_keys["literal"] \o "_" \o char

\* '/keypress/%s_%s' % (self.supported_keys[name], char.upper())
literal_path(self, char) ==
    "/keypress/" \o self.supported_keys["literal"] \o "_" \o upper(char)

(***************************************************************************)
(* Queries and mutating actions.                                           *)
(***************************************************************************)
\* Roku.apps: the parsed applications, each now owned by this device.
apps(self, resp) ==
    LET out == _get(self, "/query/apps", NoKwargs, resp)
    IN  IF out.raised # NoExc THEN out
        ELSE LET applications == deserialize_apps(resp.content)
             IN [out EXCEPT !.returned =
                    Value([a \in DOMAIN applications |->
                              [applications[a] EXCEPT !.roku = self.id]])]

\* DeviceInfo.__init__
DeviceInfo(model_name, model_num, software_version, serial_num) ==
    [model_name |-> model_name, model_num |-> model_num,
     software_version |-> software_version, serial_num |-> serial_num]

\* Roku.device_info
device_info(self, resp) ==
    LET out == _get(self, "/query/device-info", NoKwargs, resp)
        root == resp.content
    IN  IF out.raised # NoExc THEN out
        ELSE [out EXCEPT !.returned = Value(DeviceInfo(
                root["model-name"], root["model-number"],
                root["software-version"] \o "." \o root["software-build"],
                root["serial-number"]))]

\* Roku.icon
icon(self, app, resp) == _get(self, "/query/icon/" \o app.id, NoKwargs, resp)

\* A faulty variant of launch: the owner of the application is not looked at.
launch_unchecked(self, app, resp) ==
    _post(self, "/launch/" \o app.id, Params("contentID" :> app.id), resp)

\* Roku.launch: `app.roku and app.roku != self' compares object identities.
launch(self, app, resp) ==
    IF app.roku # NoRoku /\ app.roku # self.id
    THEN Raise(self, RokuException("this app belongs to another Roku"))
    ELSE _post(self, "/launch/" \o app.id, Params("contentID" :> app.id), resp)

\* Roku.store
store(self, app, resp) ==
    _post(self, "/launch/11", Params("contentID" :> app.id), resp)

\* A faulty variant of active_node: the app element is preferred to the screensaver.
active_node_app_first(root) ==
    IF find(root, "app") = None THEN find(root, "screensaver") ELSE find(root, "app")

\* The element current_app reads: <screensaver>, else <app>, else None.
active_node(root) ==
    IF find(root, "screensaver") = None THEN find(root, "app") ELSE find(root, "screensaver")

\* Roku.current_app
current_app(self, resp) ==
    LET out == _get(self, "/query/active-app", NoKwargs, resp)
        root == resp.content
        app_node == active_node(root)
    IN  IF out.raised # NoExc THEN out
        ELSE IF app_node = None THEN [out EXCEPT !.returned = None]
        ELSE [out EXCEPT !.returned = Value(Application(
                get(app_node.val, "id"), get(app_node.val, "version"),
                app_node.val.text, self.id))]

\* RokuTV.set_input; on a base Roku the name falls through to __getattr__.
set_input(self, tv_input, resp) ==
    IF ~is_tv(self)
    THEN Raise(self, AttributeError("set_input is not a valid key or sensor"))
    ELSE IF ~In(tv_input, TV_INPUTS)
    THEN Raise(self, RokuException(tv_input \o " is not a valid TV input"))
    ELSE _post(self, "/keypress/Input" \o tv_input, NoKwargs, resp)

\* RokuTV.current_power_mode; on a base Roku the name falls through to __getattr__.
current_power_mode(self, resp) ==
    LET out == _get(self, "/query/device-info", NoKwargs, resp)
    IN  IF ~is_tv(self)
        THEN Raise(self, AttributeError("current_power_mode is not a valid key or sensor"))
        ELSE IF out.raised # NoExc THEN out
        ELSE [out EXCEPT !.returned = Value(resp.content["power-mode"])]

\* The first application of the list whose field equals key, or None.
first_app(applications, field, key) ==
    IF \E a \in DOMAIN applications : applications[a][field] = key
    THEN Value(applications[CHOOSE a \in DOMAIN applications :
                    /\ applications[a][field] = key
                    /\ \A b \in DOMAIN applications :
                          applications[b][field] = key => a <= b])
    ELSE None

\* Roku.__getitem__: _app_for_name, then _app_for_id when no name matches;
\* each reads self.apps, so each makes its own request.
getitem(self, key, resp1, resp2) ==
    LET by_name == apps(self, resp1)
        by_id == apps(by_name.self, resp2)
    IN  IF by_name.raised # NoExc THEN by_name
        ELSE IF first_app(by_name.returned.val, "name", key) # None
        THEN [by_name EXCEPT !.returned = first_app(by_name.returned.val, "name", key)]
        ELSE IF by_id.raised # NoExc
        THEN [by_id EXCEPT !.sent = by_name.sent \o @, !.got = by_name.got \o @]
        ELSE [by_id EXCEPT !.sent = by_name.sent \o @, !.got = by_name.got \o @,
                           !.returned = first_app(by_id.returned.val, "id", key)]

(***************************************************************************)
(* The Application methods that route back through the owning device.      *)
(***************************************************************************)
\* An operation that does nothing and returns None.
Skip(self) ==
    [self |-> self, sent |-> << >>, got |-> << >>, raised |-> NoExc, returned |-> None]

\* Application.icon (owner is the object app.roku refers to)
Application_icon(owner, app, resp) ==
    IF app.roku # NoRoku THEN icon(owner, app, resp) ELSE Skip(owner)

\* Application.launch
Application_launch(owner, app, resp) ==
    IF app.roku # NoRoku THEN ReturnNone(launch(owner, app, resp)) ELSE Skip(owner)

\* Application.store
Application_store(owner, app, resp) ==
    IF app.roku # NoRoku THEN ReturnNone(store(owner, app, resp)) ELSE Skip(owner)

(***************************************************************************)
(* State.                                                                  *)
(***************************************************************************)
VARIABLES
    roku,       \* the device objects the caller constructed, by identity
    call,       \* the public operation in progress, or the last one run
    requests,   \* the HTTP requests that operation has sent, in order
    responses,  \* the responses to them, in order
    raised,     \* the exception it raised, or NoExc
    returned,   \* the value it returned, or Unset
    pc,         \* "idle", the loop a running operation is in, or "done"
    i,          \* that loop's position
    rokus       \* Roku.discover's list of devices built so far

vars == <<roku, call, requests, responses, raised, returned, pc, i, rokus>>

Names ==
    DOMAIN ECP_KEYS \cup DOMAIN ROKUTV_KEYS \cup {SENSORS[n] : n \in DOMAIN SENSORS}
        \cup {"fly"}

\* Positional arguments of a sensor command: 0..MaxSensorArgs numbers.
ArgLists == { [n \in 1..len |-> base + n] : len \in 0..MaxSensorArgs, base \in {0, 10} }

Chars == {"H", "i", "!"}

Strings == UNION { [1..n -> Chars] : n \in 0..MaxLiteralLen }

\* Applications the caller builds itself, owned by no device or by any device.
OwnApps ==
    { Application(Value("12"), Value("4.1"), "Netflix", r) : r \in {NoRoku} \cup Devices }

\* What discovery.discover() may yield: descriptors carrying a location.
Descriptors ==
    UNION { [1..n -> {[location |-> <<Hosts[h], DefaultPort>>] : h \in DOMAIN Hosts}] :
                n \in 0..MaxDescriptors }

\* urlparse(device.location)
urlparse(location) == [hostname |-> location[1], port |-> location[2]]

Init ==
    /\ \E tvs \in SUBSET Devices :
          roku = [d \in Devices |->
                    New(d, IF d \in tvs THEN RokuTV__init__(HostOf(d), DefaultPort)
                                        ELSE Roku__init__(HostOf(d), DefaultPort))]
    /\ call = [op |-> "none"]
    /\ requests = << >>
    /\ responses = << >>
    /\ raised = NoExc
    /\ returned = Unset
    /\ pc = "idle"
    /\ i = 0
    /\ rokus = << >>

(***************************************************************************)
(* Operations.  Each runs from "idle" to "done"; literal() and discover()  *)
(* loop, one request per step.                                             *)
(***************************************************************************)
\* The operation c ran to its end with outcome out, leaving the devices as pool.
Done(c, pool, out) ==
    /\ call' = c
    /\ requests' = out.sent
    /\ responses' = out.got
    /\ raised' = out.raised
    /\ returned' = out.returned
    /\ roku' = pool
    /\ pc' = "done"
    /\ UNCHANGED <<i, rokus>>

\* roku.<name>(*args) for any name but "literal".
Command(d, name, args) ==
    /\ pc = "idle"
    /\ name # "literal"
    /\ \E resp \in Responses(IF In(name, SENSORS) THEN "input" ELSE "keypress") :
        LET out == command(roku[d], name, args, resp)
        IN Done([op |-> "command", self |-> d, name |-> name, args |-> args],
                [roku EXCEPT ![d] = out.self], out)

\* roku.literal(s): __getattr__ resolves the name, then the loop starts.
Literal(d, s) ==
    /\ pc = "idle"
    /\ call' = [op |-> "literal", self |-> d, name |-> "literal", args |-> <<s>>]
    /\ requests' = << >>
    /\ responses' = << >>
    /\ IF unsupported(roku[d], "literal")
       THEN /\ raised' = AttributeError("literal is not a valid key or sensor")
            /\ pc' = "done"
       ELSE /\ raised' = NoExc
            /\ pc' = "literal"
    /\ returned' = Unset
    /\ i' = 0
    /\ UNCHANGED <<roku, rokus>>

\* A faulty variant of LiteralStep: a failed keypress is sent again instead of ending
\* the loop.
LiteralStepRetries ==
    /\ pc = "literal"
    /\ i < Len(call.args[1])
    /\ \E resp \in Responses("keypress") :
        LET self == roku[call.self]
            char == call.args[1][i + 1]
            out == _post(self, literal_path(self, char), NoKwargs, resp)
        IN /\ requests' = requests \o out.sent
           /\ responses' = responses \o out.got
           /\ raised' = out.raised
           /\ roku' = [roku EXCEPT ![call.self] = out.self]
           /\ i' = IF out.raised # NoExc THEN i ELSE i + 1
    /\ Len(requests) < MaxLiteralLen + 1
    /\ UNCHANGED <<call, returned, rokus, pc>>

\* One iteration of `for char in args[0]': the keypress for the next character.
LiteralStep ==
    /\ pc = "literal"
    /\ i < Len(call.args[1])
    /\ \E resp \in Responses("keypress") :
        LET self == roku[call.self]
            char == call.args[1][i + 1]
            out == _post(self, literal_path(self, char), NoKwargs, resp)
        IN /\ requests' = requests \o out.sent
           /\ responses' = responses \o out.got
           /\ raised' = out.raised
           /\ roku' = [roku EXCEPT ![call.self] = out.self]
           /\ pc' = IF out.raised # NoExc THEN "done" ELSE "literal"
    /\ i' = i + 1
    /\ UNCHANGED <<call, returned, rokus>>

\* The loop is exhausted: command() returns None.
LiteralReturn ==
    /\ pc = "literal"
    /\ i >= Len(call.args[1])
    /\ returned' = None
    /\ pc' = "done"
    /\ UNCHANGED <<roku, call, requests, responses, raised, i, rokus>>

\* roku.touch(x, y, op)
Touch(d, x, y, op) ==
    /\ pc = "idle"
    /\ \E resp \in Responses("input") :
        LET out == touch(roku[d], x, y, op, resp)
        IN Done([op |-> "touch", self |-> d, x |-> x, y |-> y, touch_op |-> op],
                [roku EXCEPT ![d] = out.self], out)

\* roku.input(params)
Input(d, params) ==
    /\ pc = "idle"
    /\ \E resp \in Responses("input") :
        LET out == input(roku[d], params, resp)
        IN Done([op |-> "input", self |-> d, params |-> params],
                [roku EXCEPT ![d] = out.self], out)

\* roku.apps
Apps(d) ==
    /\ pc = "idle"
    /\ \E resp \in Responses("apps") :
        LET out == apps(roku[d], resp)
        IN Done([op |-> "apps", self |-> d], [roku EXCEPT ![d] = out.self], out)

\* roku.device_info
QueryDeviceInfo(d) ==
    /\ pc = "idle"
    /\ \E resp \in Responses("device-info") :
        LET out == device_info(roku[d], resp)
        IN Done([op |-> "device_info", self |-> d], [roku EXCEPT ![d] = out.self], out)

\* roku.current_app
CurrentApp(d) ==
    /\ pc = "idle"
    /\ \E resp \in Responses("active-app") :
        LET out == current_app(roku[d], resp)
        IN Done([op |-> "current_app", self |-> d], [roku EXCEPT ![d] = out.self], out)

\* The Applications a finished query handed to the caller.
Handed ==
    IF returned.kind # "value" THEN {}
    ELSE IF call.op = "apps" THEN {returned.val[a] : a \in DOMAIN returned.val}
    ELSE IF call.op \in {"current_app", "getitem"} THEN {returned.val}
    ELSE {}

\* The Applications the caller passes on: one of its own, or one the query
\* that just finished handed to it.
InHand == IF pc = "done" THEN Handed ELSE OwnApps

\* roku.icon(app)
Icon(d, app) ==
    /\ pc \in {"idle", "done"}
    /\ app \in InHand
    /\ \E resp \in Responses("icon") :
        LET out == icon(roku[d], app, resp)
        IN Done([op |-> "icon", self |-> d, app |-> app],
                [roku EXCEPT ![d] = out.self], out)

\* roku.launch(app)
Launch(d, app) ==
    /\ pc \in {"idle", "done"}
    /\ app \in InHand
    /\ \E resp \in Responses("launch") :
        LET out == launch(roku[d], app, resp)
        IN Done([op |-> "launch", self |-> d, app |-> app, handed |-> app \in Handed],
                [roku EXCEPT ![d] = out.self], out)

\* roku.store(app)
Store(d, app) ==
    /\ pc \in {"idle", "done"}
    /\ app \in InHand
    /\ \E resp \in Responses("launch") :
        LET out == store(roku[d], app, resp)
        IN Done([op |-> "store", self |-> d, app |-> app],
                [roku EXCEPT ![d] = out.self], out)

\* roku.set_input(tv_input)
SetInput(d, tv_input) ==
    /\ pc = "idle"
    /\ \E resp \in Responses("keypress") :
        LET out == set_input(roku[d], tv_input, resp)
        IN Done([op |-> "set_input", self |-> d, tv_input |-> tv_input],
                [roku EXCEPT ![d] = out.self], out)

\* roku.current_power_mode
CurrentPowerMode(d) ==
    /\ pc = "idle"
    /\ \E resp \in Responses("device-info") :
        LET out == current_power_mode(roku[d], resp)
        IN Done([op |-> "current_power_mode", self |-> d],
                [roku EXCEPT ![d] = out.self], out)

\* roku[key]
GetItem(d, key) ==
    /\ pc = "idle"
    /\ \E resp1, resp2 \in Responses("apps") :
        LET out == getitem(roku[d], key, resp1, resp2)
        IN Done([op |-> "getitem", self |-> d, key |-> key],
                [roku EXCEPT ![d] = out.self], out)

\* The object an Application's back-reference points at.
Owner(app) == IF app.roku = NoRoku THEN None ELSE roku[app.roku]

\* The devices after an Application method routed a call through its owner.
Routed(app, out) ==
    IF app.roku = NoRoku THEN roku ELSE [roku EXCEPT ![app.roku] = out.self]

\* app.icon
AppIcon(app) ==
    /\ pc \in {"idle", "done"}
    /\ app \in InHand
    /\ \E resp \in Responses("icon") :
        LET out == Application_icon(Owner(app), app, resp)
        IN Done([op |-> "Application.icon", app |-> app], Routed(app, out), out)

\* app.launch()
AppLaunch(app) ==
    /\ pc \in {"idle", "done"}
    /\ app \in InHand
    /\ \E resp \in Responses("launch") :
        LET out == Application_launch(Owner(app), app, resp)
        IN Done([op |-> "Application.launch", app |-> app], Routed(app, out), out)

\* app.store()
AppStore(app) ==
    /\ pc \in {"idle", "done"}
    /\ app \in InHand
    /\ \E resp \in Responses("launch") :
        LET out == Application_store(Owner(app), app, resp)
        IN Done([op |-> "Application.store", app |-> app], Routed(app, out), out)

\* Roku.discover(): discovery.discover() yielded `found'; the loop starts.
Discover(found) ==
    /\ pc = "idle"
    /\ call' = [op |-> "discover", found |-> found]
    /\ requests' = << >>
    /\ responses' = << >>
    /\ raised' = NoExc
    /\ returned' = Unset
    /\ pc' = "discover"
    /\ i' = 0
    /\ rokus' = << >>
    /\ UNCHANGED roku

\* A faulty variant of probe_is_tv: the text is compared without regard to case.
probe_is_tv_any_case(text) == text \in {"true", "True"}

\* is_tv == "true"
probe_is_tv(text) == text = "true"

\* What one iteration of discover's loop does with the probe's response: the
\* probe's outcome, and the list after it.
discover_probe(list, device, fresh, resp) ==
    LET o == urlparse(device.location)
        probe == New(fresh, Roku__init__(o.hostname, o.port))
        out == _get(probe, "/query/device-info", NoKwargs, resp)
        device_info_ == resp.content
    IN  IF out.raised # NoExc THEN [out |-> out, rokus |-> list]
        ELSE IF find(device_info_, "is-tv") = None
        THEN [out |-> [out EXCEPT
                         !.raised = AttributeError("'NoneType' object has no attribute 'text'"),
                         !.returned = Unset],
              rokus |-> list]
        ELSE IF probe_is_tv(find(device_info_, "is-tv").val)
        THEN [out |-> out,
              rokus |-> Append(list, New(fresh + 1, RokuTV__init__(o.hostname, o.port)))]
        ELSE [out |-> out, rokus |-> Append(list, out.self)]

\* One iteration of `for device in discovery.discover(...)'.
DiscoverStep ==
    /\ pc = "discover"
    /\ i < Len(call.found)
    /\ \E resp \in Responses("device-info") :
        LET step == discover_probe(rokus, call.found[i + 1], NumDevices + 2 * i + 1, resp)
        IN /\ requests' = requests \o step.out.sent
           /\ responses' = responses \o step.out.got
           /\ raised' = step.out.raised
           /\ rokus' = step.rokus
           /\ pc' = IF step.out.raised # NoExc THEN "done" ELSE "discover"
    /\ i' = i + 1
    /\ UNCHANGED <<roku, call, returned>>

\* The loop is exhausted: discover returns the list.
DiscoverReturn ==
    /\ pc = "discover"
    /\ i >= Len(call.found)
    /\ returned' = Value(rokus)
    /\ pc' = "done"
    /\ UNCHANGED <<roku, call, requests, responses, raised, i, rokus>>

\* Control is back with the caller; the operation's frame is gone.
Return ==
    /\ pc = "done"
    /\ call' = [op |-> "none"]
    /\ requests' = << >>
    /\ responses' = << >>
    /\ raised' = NoExc
    /\ returned' = Unset
    /\ pc' = "idle"
    /\ i' = 0
    /\ rokus' = << >>
    /\ UNCHANGED roku

Next ==
    \/ \E d \in Devices, name \in Names :
         \E args \in (IF In(name, SENSORS) THEN ArgLists ELSE {<< >>}) :
            Command(d, name, args)
    \/ \E d \in Devices, s \in Strings : Literal(d, s)
    \/ LiteralStep
    \/ LiteralReturn
    \/ \E d \in Devices, x \in {10}, y \in {20},
          op \in {TOUCH_OPS[n] : n \in DOMAIN TOUCH_OPS} \cup {"spin"} :
            Touch(d, x, y, op)
    \/ \E d \in Devices, params \in {<< >>, ("rotation.x" :> 1)} : Input(d, params)
    \/ \E d \in Devices : Apps(d)
    \/ \E d \in Devices : QueryDeviceInfo(d)
    \/ \E d \in Devices : CurrentApp(d)
    \/ \E d \in Devices, app \in InHand : Icon(d, app)
    \/ \E d \in Devices, app \in InHand : Launch(d, app)
    \/ \E d \in Devices, app \in InHand : Store(d, app)
    \/ \E d \in Devices,
          tv_input \in {TV_INPUTS[n] : n \in DOMAIN TV_INPUTS} \cup {"VGA"} :
            SetInput(d, tv_input)
    \/ \E d \in Devices : CurrentPowerMode(d)
    \/ \E d \in Devices, key \in {"Netflix", "2285", "Plex"} : GetItem(d, key)
    \/ \E app \in InHand : AppIcon(app)
    \/ \E app \in InHand : AppLaunch(app)
    \/ \E app \in InHand : AppStore(app)
    \/ \E found \in Descriptors : Discover(found)
    \/ DiscoverStep
    \/ DiscoverReturn
    \/ Return

Spec == Init /\ [][Next]_vars


(***************************************************************************)
(* Properties.                                                             *)
(***************************************************************************)
\* The request the library is expected to send to device object d.
Request(method, d, path, kwargs) ==
    [method |-> method, url |-> "http://" \o HostOf(d) \o ":8060" \o path,
     kwargs |-> kwargs]

SensorNames == {"acceleration", "magnetic", "orientation", "rotation"}

TvOnlyNames ==
    {"channel_down", "channel_up", "mute", "power", "power_on", "power_off",
     "volume_down", "volume_up"}

\* C1: a command name that is neither a key of the instance's current table
\* nor a sensor name raises AttributeError with no request issued; every
\* TV-only name is rejected this way on a base Roku and accepted on a RokuTV.
C1_UnsupportedCommandRejected ==
    (pc = "done" /\ call.op = "command") =>
        LET self == roku[call.self]
            rejected == raised.type = "AttributeError" /\ requests = << >>
        IN /\ (call.name \notin DOMAIN self.supported_keys /\ call.name \notin SensorNames)
                => rejected
           /\ call.name \in TvOnlyNames =>
                /\ self.cls = "Roku" => rejected
                /\ self.cls = "RokuTV" => (~rejected /\ Len(requests) = 1)

C1_Witness ==
    /\ pc = "done" /\ call.op = "command" /\ call.name = "channel_up"
    /\ roku[call.self].cls = "Roku"
    /\ raised.type = "AttributeError" /\ requests = << >>

\* C2: a command in the instance's table, other than literal and the sensors,
\* issues exactly one request: POST /keypress/<token mapped to the name>, with
\* no parameters.
C2_KeypressOnePost ==
    (/\ pc = "done" /\ call.op = "command"
     /\ call.name \in DOMAIN roku[call.self].supported_keys
     /\ call.name \notin SensorNames) =>
        /\ requests = << Request("POST", call.self,
                           "/keypress/" \o roku[call.self].supported_keys[call.name],
                           NoKwargs) >>
        /\ call.name = "replay" =>
              requests[1].url = "http://" \o HostOf(call.self) \o ":8060/keypress/InstantReplay"
        /\ call.name = "mute" =>
              requests[1].url = "http://" \o HostOf(call.self) \o ":8060/keypress/VolumeMute"

C2_Witness ==
    /\ pc = "done" /\ call.op = "command" /\ call.name = "mute"
    /\ Len(requests) = 1 /\ requests[1].method = "POST"
    /\ responses[1].status_code = 200 /\ returned = None

\* C3: launch(app) on d raises the cross-device error without a request when
\* app.roku is set and is another device; otherwise it issues exactly one POST
\* /launch/<app.id> with contentID=<app.id>.  Applications handed out by d.apps
\* and d.current_app are owned by d, so they launch through d only.
C3_LaunchOwnership ==
    /\ (pc = "done" /\ call.op = "launch") =>
          IF call.app.roku # NoRoku /\ call.app.roku # call.self
          THEN /\ raised = RokuException("this app belongs to another Roku")
               /\ requests = << >>
          ELSE requests = << Request("POST", call.self, "/launch/" \o call.app.id,
                                     Params("contentID" :> call.app.id)) >>
    /\ (pc = "done" /\ call.op \in {"apps", "current_app"}) =>
          \A app \in Handed : app.roku = call.self
    /\ (pc = "done" /\ call.op = "launch" /\ call.handed) =>
          /\ call.app.roku \in Devices
          /\ call.app.roku = call.self => Len(requests) = 1
          /\ call.app.roku # call.self => (raised.type = "RokuException" /\ requests = << >>)

C3_Witness ==
    /\ pc = "done" /\ call.op = "launch" /\ call.handed
    /\ call.app.id = "2285"
    /\ call.app.roku # call.self
    /\ raised = RokuException("this app belongs to another Roku")
    /\ requests = << >>

\* C4: every exchange whose status is not 200 ends the operation at once with
\* RokuException(body): it is the last request sent (no retry, nothing after
\* it) and nothing is returned; an operation that hands back what _get/_post
\* returned returns the body of the 200 response.
C4_Non200Raises ==
    /\ Len(responses) = Len(requests)
    /\ \A k \in DOMAIN responses :
          responses[k].status_code # 200 =>
              /\ k = Len(requests)
              /\ pc = "done"
              /\ raised = RokuException(responses[k].content)
              /\ returned = Unset
    /\ (/\ pc = "done" /\ call.op \in {"icon", "launch", "store", "input"}
        /\ requests # << >> /\ responses[1].status_code = 200) =>
          /\ raised = NoExc
          /\ returned = Value(responses[1].content)

C4_Witness ==
    /\ pc = "done" /\ call.op = "discover"
    /\ Len(requests) = 2 /\ requests[2].method = "GET"
    /\ responses[2] = [status_code |-> 404, content |-> "Not Found"]
    /\ raised = RokuException("Not Found")
    /\ returned = Unset

\* The upper-case form of the characters typed.
Uppercased(char) == IF char = "i" THEN "I" ELSE char

LiteralRequest(k) ==
    Request("POST", call.self, "/keypress/Lit_" \o Uppercased(call.args[1][k]), NoKwargs)

\* C5: literal(s), when every request succeeds, issues exactly Len(s) requests,
\* the k-th being POST /keypress/Lit_<uppercased k-th character>, in order.
C5_LiteralPerCharacter ==
    call.op = "literal" =>
        /\ \A k \in DOMAIN requests : requests[k] = LiteralRequest(k)
        /\ (pc = "done" /\ raised = NoExc) =>
              /\ Len(requests) = Len(call.args[1])
              /\ returned = None

C5_Witness ==
    /\ pc = "done" /\ call.op = "literal" /\ raised = NoExc
    /\ call.args[1] = <<"H", "i", "!">>
    /\ [k \in 1..3 |-> requests[k].url] =
          << "http://" \o HostOf(call.self) \o ":8060/keypress/Lit_H",
             "http://" \o HostOf(call.self) \o ":8060/keypress/Lit_I",
             "http://" \o HostOf(call.self) \o ":8060/keypress/Lit_!" >>

\* C6 (as claimed): a sensor command called with a number of arguments other
\* than three raises AttributeError and issues no request; with three it posts
\* /input with exactly the parameters <sensor>.x, <sensor>.y, <sensor>.z.
C6_SensorArityChecked ==
    (pc = "done" /\ call.op = "command" /\ call.name \in SensorNames) =>
        IF Len(call.args) # 3
        THEN raised.type = "AttributeError" /\ requests = << >>
        ELSE requests = << Request("POST", call.self, "/input",
                             Params((call.name \o ".x" :> call.args[1]) @@
                                    (call.name \o ".y" :> call.args[2]) @@
                                    (call.name \o ".z" :> call.args[3]))) >>

\* C7: discover probes each descriptor once, in order, with GET
\* /query/device-info; when it returns, the list holds one device per
\* descriptor, in order, the k-th a RokuTV (with the TV keys among its commands)
\* exactly when the k-th probe's is-tv text is "true"; when a probe fails the
\* error is raised and no list is returned.
C7_DiscoverProbes ==
    call.op = "discover" =>
        /\ Len(requests) = i /\ i <= Len(call.found)
        /\ \A k \in DOMAIN requests :
              requests[k] = [method |-> "GET",
                             url |-> "http://" \o call.found[k].location[1]
                                       \o ":8060/query/device-info",
                             kwargs |-> NoKwargs]
        /\ raised # NoExc => (pc = "done" /\ returned = Unset)
        /\ (pc = "done" /\ raised = NoExc) =>
              /\ returned.kind = "value"
              /\ Len(returned.val) = Len(call.found)
              /\ Len(requests) = Len(call.found)
              /\ \A k \in DOMAIN returned.val :
                    LET tv == responses[k].content["is-tv"] = "true"
                        dev == returned.val[k]
                    IN /\ dev.host = call.found[k].location[1]
                       /\ dev.cls = (IF tv THEN "RokuTV" ELSE "Roku")
                       /\ "channel_up" \in commands(dev) <=> tv
                       /\ TvOnlyNames \subseteq commands(dev) <=> tv
                       /\ is_tv(dev) <=> tv

C7_Witness ==
    /\ pc = "done" /\ call.op = "discover" /\ raised = NoExc
    /\ Len(call.found) = 2
    /\ responses[1].content["is-tv"] = "true"
    /\ responses[2].content["is-tv"] = "True"
    /\ returned.val[1].cls = "RokuTV"
    /\ returned.val[2].cls = "Roku"

\* C8: touch(x, y, op) with op outside {up, down, press, move, cancel} raises
\* RokuException and issues no request; otherwise it issues exactly one POST
\* /input with exactly touch.0.x=x, touch.0.y=y, touch.0.op=op.
C8_TouchValidated ==
    (pc = "done" /\ call.op = "touch") =>
        IF call.touch_op \notin {"up", "down", "press", "move", "cancel"}
        THEN /\ raised = RokuException(call.touch_op \o " is not a valid touch operation")
             /\ requests = << >>
        ELSE requests = << Request("POST", call.self, "/input",
                             Params([k \in {"touch.0.x", "touch.0.y", "touch.0.op"} |->
                                        CASE k = "touch.0.x" -> call.x
                                          [] k = "touch.0.y" -> call.y
                                          [] k = "touch.0.op" -> call.touch_op])) >>

C8_Witness ==
    /\ pc = "done" /\ call.op = "touch" /\ call.touch_op = "spin"
    /\ raised.type = "RokuException" /\ requests = << >>

\* The Application expected from an <app> or <screensaver> element.
ExpectedApp(node, d) ==
    [id |-> IF "id" \in DOMAIN node.attrib THEN node.attrib.id ELSE "None",
     version |-> Value(node.attrib.version), name |-> node.text, roku |-> d]

\* C9: current_app issues one GET /query/active-app and, on a 200 response,
\* returns the screensaver's Application whenever a screensaver element is
\* present, else the app element's, else None; the Application's device
\* reference is the issuing device.
C9_CurrentAppPrecedence ==
    (pc = "done" /\ call.op = "current_app") =>
        /\ requests = << Request("GET", call.self, "/query/active-app", NoKwargs) >>
        /\ responses[1].status_code = 200 =>
              LET root == responses[1].content
              IN CASE "screensaver" \in DOMAIN root ->
                        returned = Value(ExpectedApp(root["screensaver"], call.self))
                   [] "screensaver" \notin DOMAIN root /\ "app" \in DOMAIN root ->
                        returned = Value(ExpectedApp(root["app"], call.self))
                   [] OTHER -> returned = None

C9_Witness ==
    /\ pc = "done" /\ call.op = "current_app"
    /\ responses[1].status_code = 200
    /\ DOMAIN responses[1].content = {"app", "screensaver"}
    /\ responses[1].content["app"].text = "Netflix"
    /\ responses[1].content["screensaver"].text = "Aquatic Life"
    /\ returned.kind = "value" /\ returned.val.name = "Aquatic Life"
    /\ returned.val.roku = call.self

\* C10: when the k-th keypress of literal(s) gets a non-200 response, the
\* RokuException is raised there: the requests sent are exactly those for
\* characters 1..k in order, the earlier ones succeeded, the failed one is not
\* repeated and the loop is over.
C10_LiteralStopsAtFailure ==
    (call.op = "literal" /\ raised # NoExc) =>
        LET k == Len(requests)
        IN /\ pc = "done"
           /\ k >= 1 /\ k <= Len(call.args[1]) /\ k = i
           /\ Len(responses) = k
           /\ responses[k].status_code # 200
           /\ raised = RokuException(responses[k].content)
           /\ \A j \in 1..(k - 1) : responses[j].status_code = 200
           /\ requests = [j \in 1..k |-> LiteralRequest(j)]
           /\ returned = Unset

C10_Witness ==
    /\ pc = "done" /\ call.op = "literal" /\ raised.type = "RokuException"
    /\ call.args[1] = <<"H", "i", "!">>
    /\ Len(requests) = 2
    /\ responses[2].status_code = 404

====
